---- MODULE Spec2Model ----
(***************************************************************************)
(* A model of three parts of pylot:                                        *)
(*   - GroundAgentOperator (pylot/control/ground_agent_operator.py): four  *)
(*     input callbacks that buffer messages in FIFO queues and a watermark *)
(*     callback that pops one message per queue and sends one command;     *)
(*   - get_control_message, the pure part of the control synthesis;        *)
(*   - get_detected_speed_limits (pylot/simulation/utils.py): the matching *)
(*     of 2D boxes with speed limit signs.                                 *)
(*                                                                         *)
(* Numbers.  Timestamps are 1, 2, ...  Speeds are integers in one fixed    *)
(* unit; speed_factor is in tenths (0 .. 10); angles and angular rates are *)
(* in hundredths of a radian (per second); yaws are in degrees; distances  *)
(* are in metres.  The input sets are chosen so that every division of    *)
(* the code is exact in these units.                                       *)
(***************************************************************************)
EXTENDS Integers, Sequences, FiniteSets, TLC

(***************************************************************************)
(* Bounds of the model.                                                    *)
(***************************************************************************)
\* Timesteps 1 .. MaxT are played.
MaxT == 2
\* How many times, over a run, a source may depart from "exactly one
\* message per timestep" (one more message for a timestep, or none).
MaxAnomalies == 1
\* How many times get_control_message is called on its own.
MaxCalls == 2
\* The longest list of speed limit signs, and of 2D boxes.
MaxSigns == 2
MaxBoxes == 2
\* How many times get_detected_speed_limits is called on the same inputs.
MaxMatchCalls == 2
\* The longest list of stop signs.
MaxStops == 2
\* How many can bus messages the logger receives when it receives nothing
\* else, and how many callbacks of the logger run when they interleave.
MaxUpdates == 12
MaxLoggerCalls == 6

(***************************************************************************)
(* Program constants.                                                      *)
(***************************************************************************)
\* math.fabs(wp_angle_speed) < 0.1, in hundredths of a radian per second.
CornerThreshold == 10
\* best_dist = 1000000
BestDistInit == 1000000
\* best_dist < 5**2
MaxDistance == 25
\* yaw_diff > 30 and yaw_diff < 150
YawLow == 30
YawHigh == 150
\* ymax - ymin > 15, in tenths of a pixel
MinHeight == 150
\* pixel_has_same_depth(..., 0.4), in tenths of a metre
DepthTolerance == 4
\* self._buffer_length = 10
_buffer_length == 10
\* while num_tries < 50
MaxTries == 50

\* Python's None: where an exception name is expected, and where a message
\* or a record is expected (timestamps start at 1).
None == "None"
NoMsg == [timestamp |-> 0]

Abs(x) == IF x < 0 THEN -x ELSE x
Min(a, b) == IF a < b THEN a ELSE b
Max(a, b) == IF a > b THEN a ELSE b
Clamp(x, lo, hi) == Max(lo, Min(x, hi))

(***************************************************************************)
(* State.                                                                  *)
(***************************************************************************)
VARIABLES
    \* GroundAgentOperator
    _can_bus_msgs,        \* deque of can bus messages
    _waypoint_msgs,       \* deque of waypoint messages
    _obstacle_msgs,       \* deque of ground obstacle messages
    _traffic_light_msgs,  \* deque of ground traffic light messages
    _pid,                 \* the PID controller's accumulators
    control_stream,       \* the commands sent on the control stream, in order
    \* the dataflow runtime around the operator
    low_watermark,        \* per input stream: the last timestep it closed
    watermark,            \* the last timestep on_watermark was invoked for
    received,             \* per input stream: the messages its callback
                          \*   has appended, in arrival order
    \* the last invocation of on_watermark
    popped,               \* per input stream: the message popleft returned,
                          \*   NoMsg where no message was popped
    raised,               \* the exception the invocation ended with, or None
    backlog,              \* the messages it left in the four queues
    pid_runs,             \* how many times the PID controller has been run
    w_speed_factor,         \* the speed factor it computed, in tenths, -1 when
                          \*   it computed none
    \* get_control_message called on its own
    c_args,               \* the arguments of the last call, or NoMsg
    c_ret,                \* what the last call returned or raised, or NoMsg
    c_calls,              \* the calls made
    \* get_detected_speed_limits.match_bboxes_with_speed_signs
    speed_signs,          \* the list of signs: location, yaw, bounding_box
    loc_bboxes,           \* the list of (location, bbox) pairs
    camera_yaw,           \* camera_transform.rotation.yaw
    m_pc,                 \* "idle", "entry", "loop" (in the for loop),
                          \*   "returned" or "raised"
    m_next,               \* the index of the pair the loop takes next
    result,               \* the result list: indices into speed_signs
    bbox_writes,          \* per sign: the assignments to its bounding_box
                          \*   made by this call
    \* the calls of the two detection functions
    depth_frame,          \* the type of the depth_frame argument
    m_returns,            \* per finished call of the speed limit matcher:
                          \*   the list returned, the signs' bounding boxes
    \* get_detected_traffic_stops
    traffic_stops,        \* the list of stop signs
    s_pc,                 \* "idle", "entry", "loop", "returned" or "raised"
    s_next,               \* the index of the stop sign the loop takes next
    det_stop_signs,       \* the result list: indices into traffic_stops
    coords,               \* the corners the last get_stop_markings_bbox kept
    \* ChauffeurLoggerOperator
    _ground_vehicle_id,   \* the id of the ego vehicle, 0 for None
    _waypoints,           \* the ego trajectory, or NoWaypoints for None
    _global_transforms,   \* deque of the last transforms
    _current_transform,   \* the transform of the last can bus message, 0 for
                          \*   None
    _previous_transform,  \* the transform popped last, 0 for None
    files,                \* the files written, in order
    transforms_seen,      \* the transforms of the can bus messages received
    t_raised,             \* what the last on_tracking_update ended with:
                          \*   None, an exception, or "idle" before any call
    ego_recorded,         \* a trajectory with a point in it has been taken
                          \*   for the ego vehicle's
    l_calls,              \* the callbacks of the logger invoked
    \* get_vehicle_handle
    vehicle_id,           \* the argument
    num_tries,            \* the local counter
    lookups,              \* the calls of world.get_actors().find made
    vehicle,              \* what the last lookup returned, 0 for None
    h_pc                  \* "idle", "loop", "returned" or "raised"

opvars == <<_can_bus_msgs, _waypoint_msgs, _obstacle_msgs, _traffic_light_msgs,
            _pid, control_stream, low_watermark, watermark, received, popped,
            raised, backlog, pid_runs, w_speed_factor>>

cvars == <<c_args, c_ret, c_calls>>

mvars == <<speed_signs, loc_bboxes, camera_yaw, m_pc, m_next, result,
           bbox_writes>>

dvars == <<depth_frame, m_returns>>

svars == <<traffic_stops, s_pc, s_next, det_stop_signs, coords>>

lvars == <<_ground_vehicle_id, _waypoints, _global_transforms,
           _current_transform, _previous_transform, files, transforms_seen,
           t_raised, ego_recorded, l_calls>>

hvars == <<vehicle_id, num_tries, lookups, vehicle, h_pc>>

vars == <<opvars, cvars, mvars, dvars, svars, lvars, hvars>>

Streams == {"can_bus", "waypoints", "obstacles", "traffic_lights"}

(***************************************************************************)
(* Configuration (absl flags) and message payloads.                        *)
(***************************************************************************)
flags == [target_speed |-> 20, steer_gain |-> 10,
          pid_p |-> 1, pid_i |-> 1, pid_d |-> 0]

\* forward_speed values of can bus messages; -10 is a negative speed.
Speeds == {-10, 30}
\* wp_angle_speed values of waypoint messages.
AngleSpeeds == {20}
\* wp_angle of waypoint messages.
Angles == {20}

CanBusMsgs(t) == [timestamp : {t}, forward_speed : Speeds]
WaypointMsgs(t) ==
    [timestamp : {t}, wp_angle : Angles, wp_angle_speed : AngleSpeeds]
\* obstacles: whether the list holds an obstacle the agent must stop for.
ObstacleMsgs(t) == [timestamp : {t}, obstacles : BOOLEAN]
\* traffic_lights: whether the list holds a red light on the agent's lane.
TrafficLights == {FALSE}
TrafficLightMsgs(t) == [timestamp : {t}, traffic_lights : TrafficLights]

(***************************************************************************)
(* pylot.control.utils and pid_controller.pid (not part of the sources     *)
(* at hand): modelled from the design document.                            *)
(***************************************************************************)
\* stop_for_agents: the most restrictive of the per-category factors.
stop_for_agents(obstacles, traffic_lights) ==
    Min(IF obstacles THEN 0 ELSE 10, IF traffic_lights THEN 0 ELSE 10)

\* radians_to_steer: the gain (in tenths) times the angle, clamped to [-1, 1]
\* (in hundredths).
radians_to_steer(rad, steer_gain) ==
    Clamp((steer_gain * rad) \div 10, -100, 100)

\* PID(p, i, d): the accumulators of a new controller.
PID == [integral |-> 0, previous_error |-> 0]

\* compute_throttle_and_brake: runs the controller once on the speed error;
\* positive error drives the throttle, negative error the brake.
compute_throttle_and_brake(pid, current_speed, target_speed) ==
    LET error == target_speed - current_speed
        integral == Clamp(pid.integral + error, -40, 40)
        gain == flags.pid_p * error + flags.pid_i * integral
                    + flags.pid_d * (error - pid.previous_error)
    IN  [throttle |-> IF gain > 0 THEN Min(gain, 100) ELSE 0,
         brake |-> IF gain < 0 THEN Min(-gain, 100) ELSE 0,
         pid |-> [integral |-> integral, previous_error |-> error]]

(***************************************************************************)
(* GroundAgentOperator.get_control_message                                 *)
(***************************************************************************)
\* A variant that halves the target speed in corners instead.
target_speed_adjusted_in_corners(target_speed, wp_angle_speed, speed_factor) ==
    IF Abs(wp_angle_speed) >= CornerThreshold
    THEN ((target_speed * speed_factor) \div 10) \div 2
    ELSE (target_speed * speed_factor) \div 10

\* Lines 149-153: the target speed handed to the throttle/brake controller.
\* speed_factor is in tenths, hence the division by 10.
target_speed_adjusted(target_speed, wp_angle_speed, speed_factor) ==
    IF Abs(wp_angle_speed) < CornerThreshold
    THEN ((target_speed * speed_factor) \div 10) \div 2
    ELSE (target_speed * speed_factor) \div 10

\* A variant without the assertion.
speed_assertion_off(current_speed) == TRUE

\* Line 145: the assertion on the current speed.
speed_assertion(current_speed) == current_speed >= 0

\* A variant of the method that asserts after it has run the controller.
get_control_message_asserting_late(fl, pid, wp_angle, wp_angle_speed, speed_factor, current_speed, timestamp) ==
    LET steer == radians_to_steer(wp_angle, fl.steer_gain)
        target == target_speed_adjusted(fl.target_speed, wp_angle_speed,
                                        speed_factor)
        tb == compute_throttle_and_brake(pid, current_speed, target)
    IN  IF ~speed_assertion(current_speed)
        THEN [raised |-> "AssertionError", msg |-> NoMsg, pid |-> tb.pid,
              ran |-> 1, target |-> 0]
        ELSE [raised |-> None,
              msg |-> [steer |-> steer, throttle |-> tb.throttle,
                       brake |-> tb.brake, hand_brake |-> FALSE,
                       reverse |-> FALSE, timestamp |-> timestamp],
              pid |-> tb.pid, ran |-> 1, target |-> target]

\* A variant of the method that runs the controller a second time.
get_control_message_twice(fl, pid, wp_angle, wp_angle_speed, speed_factor, current_speed, timestamp) ==
    IF ~speed_assertion(current_speed)
    THEN [raised |-> "AssertionError", msg |-> NoMsg, pid |-> pid, ran |-> 0,
          target |-> 0]
    ELSE LET steer == radians_to_steer(wp_angle, fl.steer_gain)
             target == target_speed_adjusted(fl.target_speed, wp_angle_speed,
                                             speed_factor)
             first == compute_throttle_and_brake(pid, current_speed, target)
             tb == compute_throttle_and_brake(first.pid, current_speed, target)
         IN  [raised |-> None,
              msg |-> [steer |-> steer, throttle |-> tb.throttle,
                       brake |-> tb.brake, hand_brake |-> FALSE,
                       reverse |-> FALSE, timestamp |-> timestamp],
              pid |-> tb.pid, ran |-> 2, target |-> target]

\* The whole method.  raised = "AssertionError" when the assertion fails:
\* nothing after it runs, so the controller is left as it was.
get_control_message(fl, pid, wp_angle, wp_angle_speed, speed_factor, current_speed, timestamp) ==
    IF ~speed_assertion(current_speed)
    THEN [raised |-> "AssertionError", msg |-> NoMsg, pid |-> pid, ran |-> 0,
          target |-> 0]
    ELSE LET steer == radians_to_steer(wp_angle, fl.steer_gain)
             target == target_speed_adjusted(fl.target_speed, wp_angle_speed,
                                             speed_factor)
             tb == compute_throttle_and_brake(pid, current_speed, target)
         IN  [raised |-> None,
              msg |-> [steer |-> steer, throttle |-> tb.throttle,
                       brake |-> tb.brake, hand_brake |-> FALSE,
                       reverse |-> FALSE, timestamp |-> timestamp],
              pid |-> tb.pid, ran |-> 1, target |-> target]

(***************************************************************************)
(* GroundAgentOperator: construction.                                      *)
(***************************************************************************)
NoPops == [s \in Streams |-> NoMsg]

OperatorInit ==
    /\ _can_bus_msgs = <<>>
    /\ _obstacle_msgs = <<>>
    /\ _traffic_light_msgs = <<>>
    /\ _waypoint_msgs = <<>>
    /\ _pid = PID
    /\ control_stream = <<>>
    /\ low_watermark = [s \in Streams |-> 0]
    /\ watermark = 0
    /\ received = [s \in Streams |-> <<>>]
    /\ popped = NoPops
    /\ raised = None
    /\ backlog = 0
    /\ pid_runs = 0
    /\ w_speed_factor = -1

(***************************************************************************)
(* The dataflow runtime: what a stream may deliver.                        *)
(***************************************************************************)
\* The number of messages stream s has delivered for timestep t.
Delivered(s, t) ==
    Cardinality({i \in 1..Len(received[s]) : received[s][i].timestamp = t})

\* The departures of stream s from one message per timestep: for a closed
\* timestep the difference to one, for the open one the messages beyond one.
AnomaliesOf(s) ==
    LET closed[t \in 0..MaxT] ==
            IF t = 0 THEN 0
            ELSE closed[t - 1] +
                 (IF t <= low_watermark[s] THEN Abs(Delivered(s, t) - 1)
                  ELSE 0)
        open == low_watermark[s] + 1
    IN  closed[MaxT] + (IF open <= MaxT THEN Max(Delivered(s, open) - 1, 0)
                        ELSE 0)

RECURSIVE SumOver(_, _)
SumOver(S, f) ==
    IF S = {} THEN 0
    ELSE LET x == CHOOSE y \in S : TRUE IN f[x] + SumOver(S \ {x}, f)

Anomalies == SumOver(Streams, [s \in Streams |-> AnomaliesOf(s)])

\* A stream delivers a message for the timestep after its low watermark
\* (a message at or below a stream's watermark cannot be sent).  A second
\* message for the same timestep is an anomaly.
MayDeliver(s) ==
    /\ low_watermark[s] < MaxT
    /\ Delivered(s, low_watermark[s] + 1) >= 1 => Anomalies < MaxAnomalies

\* A stream closes its open timestep.  Closing it with no message delivered
\* is an anomaly.
MayClose(s) ==
    /\ low_watermark[s] < MaxT
    /\ Delivered(s, low_watermark[s] + 1) = 0 => Anomalies < MaxAnomalies

SendWatermark(s) ==
    /\ MayClose(s)
    /\ low_watermark' = [low_watermark EXCEPT ![s] = @ + 1]
    /\ UNCHANGED <<_can_bus_msgs, _waypoint_msgs, _obstacle_msgs,
                   _traffic_light_msgs, _pid, control_stream, watermark,
                   received, popped, raised, backlog, pid_runs, w_speed_factor>>
    /\ UNCHANGED <<cvars, mvars, dvars, svars, lvars, hvars>>

(***************************************************************************)
(* GroundAgentOperator: the input callbacks.                               *)
(***************************************************************************)
Receive(s, msg) == received' = [received EXCEPT ![s] = Append(@, msg)]

on_waypoints_update(msg) ==
    /\ _waypoint_msgs' = Append(_waypoint_msgs, msg)
    /\ Receive("waypoints", msg)
    /\ UNCHANGED <<_can_bus_msgs, _obstacle_msgs, _traffic_light_msgs, _pid,
                   control_stream, low_watermark, watermark, popped, raised,
                   backlog, pid_runs, w_speed_factor>>
    /\ UNCHANGED <<cvars, mvars, dvars, svars, lvars, hvars>>

\* A variant on a deque that holds one message: the older one is dropped.
on_can_bus_update_bounded(msg) ==
    /\ _can_bus_msgs' = <<msg>>
    /\ Receive("can_bus", msg)
    /\ UNCHANGED <<_waypoint_msgs, _obstacle_msgs, _traffic_light_msgs, _pid,
                   control_stream, low_watermark, watermark, popped, raised,
                   backlog, pid_runs, w_speed_factor>>
    /\ UNCHANGED <<cvars, mvars, dvars, svars, lvars, hvars>>

on_can_bus_update(msg) ==
    /\ _can_bus_msgs' = Append(_can_bus_msgs, msg)
    /\ Receive("can_bus", msg)
    /\ UNCHANGED <<_waypoint_msgs, _obstacle_msgs, _traffic_light_msgs, _pid,
                   control_stream, low_watermark, watermark, popped, raised,
                   backlog, pid_runs, w_speed_factor>>
    /\ UNCHANGED <<cvars, mvars, dvars, svars, lvars, hvars>>

on_obstacles_update(msg) ==
    /\ _obstacle_msgs' = Append(_obstacle_msgs, msg)
    /\ Receive("obstacles", msg)
    /\ UNCHANGED <<_can_bus_msgs, _waypoint_msgs, _traffic_light_msgs, _pid,
                   control_stream, low_watermark, watermark, popped, raised,
                   backlog, pid_runs, w_speed_factor>>
    /\ UNCHANGED <<cvars, mvars, dvars, svars, lvars, hvars>>

on_traffic_lights_update(msg) ==
    /\ _traffic_light_msgs' = Append(_traffic_light_msgs, msg)
    /\ Receive("traffic_lights", msg)
    /\ UNCHANGED <<_can_bus_msgs, _waypoint_msgs, _obstacle_msgs, _pid,
                   control_stream, low_watermark, watermark, popped, raised,
                   backlog, pid_runs, w_speed_factor>>
    /\ UNCHANGED <<cvars, mvars, dvars, svars, lvars, hvars>>

(***************************************************************************)
(* GroundAgentOperator.on_watermark                                        *)
(***************************************************************************)
\* A variant that pops the newest message (deque.pop()).
pop_right(q) ==
    IF q = <<>> THEN [raised |-> "IndexError", msg |-> NoMsg, rest |-> q]
    ELSE [raised |-> None, msg |-> q[Len(q)], rest |-> SubSeq(q, 1, Len(q) - 1)]

\* A variant that makes up a message when the deque is empty.
popleft_or_default(q) ==
    IF q = <<>>
    THEN [raised |-> None,
          msg |-> [timestamp |-> 0, forward_speed |-> 0, wp_angle |-> 0,
                   wp_angle_speed |-> 0, obstacles |-> FALSE,
                   traffic_lights |-> FALSE],
          rest |-> q]
    ELSE [raised |-> None, msg |-> Head(q), rest |-> Tail(q)]

\* deque.popleft(): the head and the rest, or IndexError on an empty deque.
popleft(q) ==
    IF q = <<>> THEN [raised |-> "IndexError", msg |-> NoMsg, rest |-> q]
    ELSE [raised |-> None, msg |-> Head(q), rest |-> Tail(q)]

\* A variant that pops nothing unless the four queues hold a message.
pops_all_or_nothing ==
    LET ready == /\ _can_bus_msgs # <<>> /\ _waypoint_msgs # <<>>
                 /\ _obstacle_msgs # <<>> /\ _traffic_light_msgs # <<>>
        pop(q) == IF ready THEN popleft(q)
                  ELSE [raised |-> "IndexError", msg |-> NoMsg, rest |-> q]
    IN  [can_bus |-> pop(_can_bus_msgs), waypoints |-> pop(_waypoint_msgs),
         obstacles |-> pop(_obstacle_msgs),
         traffic_lights |-> pop(_traffic_light_msgs)]

\* A variant that first drops, from each queue, the messages of timesteps
\* before the one on_watermark is called for.
RECURSIVE drop_stale(_, _)
drop_stale(q, timestamp) ==
    IF q # <<>> /\ Head(q).timestamp < timestamp
    THEN drop_stale(Tail(q), timestamp) ELSE q

pops_by_timestamp ==
    LET t == watermark + 1
        cb == popleft(drop_stale(_can_bus_msgs, t))
        wp == IF cb.raised = None THEN popleft(drop_stale(_waypoint_msgs, t))
              ELSE [raised |-> "skipped", msg |-> NoMsg, rest |-> _waypoint_msgs]
        ob == IF wp.raised = None THEN popleft(drop_stale(_obstacle_msgs, t))
              ELSE [raised |-> "skipped", msg |-> NoMsg, rest |-> _obstacle_msgs]
        tl == IF ob.raised = None
              THEN popleft(drop_stale(_traffic_light_msgs, t))
              ELSE [raised |-> "skipped", msg |-> NoMsg,
                    rest |-> _traffic_light_msgs]
    IN  [can_bus |-> cb, waypoints |-> wp, obstacles |-> ob,
         traffic_lights |-> tl]

\* The four pops of lines 103-114, in the order of the code: a pop is made
\* only when every pop before it returned.
pops ==
    LET cb == popleft(_can_bus_msgs)
        wp == IF cb.raised = None THEN popleft(_waypoint_msgs)
              ELSE [raised |-> "skipped", msg |-> NoMsg, rest |-> _waypoint_msgs]
        ob == IF wp.raised = None THEN popleft(_obstacle_msgs)
              ELSE [raised |-> "skipped", msg |-> NoMsg, rest |-> _obstacle_msgs]
        tl == IF ob.raised = None THEN popleft(_traffic_light_msgs)
              ELSE [raised |-> "skipped", msg |-> NoMsg,
                    rest |-> _traffic_light_msgs]
    IN  [can_bus |-> cb, waypoints |-> wp, obstacles |-> ob,
         traffic_lights |-> tl]

\* A variant that keeps stopping for the agents of the timestep before.
agents_seen_lately(p) ==
    [obstacles |-> \/ p.obstacles.msg.obstacles
                   \/ popped.obstacles.timestamp # 0 /\ popped.obstacles.obstacles,
     traffic_lights |-> p.traffic_lights.msg.traffic_lights]

\* Lines 112-118: the obstacles and the traffic lights given to
\* stop_for_agents are those of the messages just popped.
agents_to_stop_for(p) ==
    [obstacles |-> p.obstacles.msg.obstacles,
     traffic_lights |-> p.traffic_lights.msg.traffic_lights]

\* A variant that stamps the command as the can bus message is stamped.
message_timestamp_of_can_bus(timestamp, p) == p.can_bus.msg.timestamp

\* Lines 101 and 121: the command carries the timestamp on_watermark was
\* called with.
message_timestamp(timestamp, p) == timestamp

\* A variant that sends nothing when the target speed is zero.
send_unless_stopped(stream, r) ==
    IF r.raised = None /\ r.target # 0 THEN Append(stream, r.msg) ELSE stream

\* Lines 119-121: the command is sent when get_control_message returned.
send(stream, r) ==
    IF r.raised = None THEN Append(stream, r.msg) ELSE stream

\* The runtime invokes on_watermark(t) once every input stream has closed
\* t, for t = 1, 2, ... in order.
watermark_ready(timestamp) ==
    /\ timestamp = watermark + 1
    /\ \A s \in Streams : low_watermark[s] >= timestamp

on_watermark(timestamp) ==
    LET p == pops
        all_popped == \A s \in Streams : p[s].raised = None
        agents == agents_to_stop_for(p)
        factor == stop_for_agents(agents.obstacles, agents.traffic_lights)
        r == get_control_message(flags, _pid, p.waypoints.msg.wp_angle,
                                 p.waypoints.msg.wp_angle_speed, factor,
                                 p.can_bus.msg.forward_speed,
                                 message_timestamp(timestamp, p))
    IN  /\ watermark_ready(timestamp)
        /\ watermark' = timestamp
        /\ _can_bus_msgs' = p.can_bus.rest
        /\ _waypoint_msgs' = p.waypoints.rest
        /\ _obstacle_msgs' = p.obstacles.rest
        /\ _traffic_light_msgs' = p.traffic_lights.rest
        /\ popped' = [s \in Streams |-> p[s].msg]
        /\ backlog' = Len(p.can_bus.rest) + Len(p.waypoints.rest)
                         + Len(p.obstacles.rest) + Len(p.traffic_lights.rest)
        /\ IF ~all_popped
           THEN /\ raised' = "IndexError"
                /\ w_speed_factor' = -1
                /\ UNCHANGED <<_pid, pid_runs, control_stream>>
           ELSE /\ raised' = r.raised
                /\ w_speed_factor' = factor
                /\ _pid' = r.pid
                /\ pid_runs' = pid_runs + r.ran
                /\ control_stream' = send(control_stream, r)
        /\ UNCHANGED <<low_watermark, received>>
        /\ UNCHANGED <<cvars, mvars, dvars, svars, lvars, hvars>>

(***************************************************************************)
(* get_control_message called on its own, on the operator's controller.    *)
(***************************************************************************)
ControlIdle ==
    /\ c_args = NoMsg
    /\ c_ret = NoMsg
    /\ c_calls = 0

FlagSets ==
    {[target_speed |-> ts, steer_gain |-> 10, pid_p |-> 1, pid_i |-> 1,
      pid_d |-> 0] : ts \in {20, 40}}

ControlArgs ==
    [fl : FlagSets, wp_angle : {-120, 0, 20},
     wp_angle_speed : {-20, -10, -9, 0, 9, 10, 20},
     speed_factor : {0, 5, 10}, current_speed : {-10, 0, 30},
     timestamp : {1}]

control_call(a) ==
    LET r == get_control_message(a.fl, _pid, a.wp_angle, a.wp_angle_speed,
                                 a.speed_factor, a.current_speed, a.timestamp)
    IN  /\ c_calls < MaxCalls
        /\ c_calls' = c_calls + 1
        /\ c_args' = a
        /\ c_ret' = r
        /\ _pid' = r.pid
        /\ pid_runs' = pid_runs + r.ran
        /\ UNCHANGED <<_can_bus_msgs, _waypoint_msgs, _obstacle_msgs,
                       _traffic_light_msgs, control_stream, low_watermark,
                       watermark, received, popped, raised, backlog,
                       w_speed_factor>>
        /\ UNCHANGED <<mvars, dvars, svars, lvars, hvars>>

(***************************************************************************)
(* get_detected_speed_limits.match_bboxes_with_speed_signs                 *)
(*                                                                         *)
(* Locations are points of one axis, so that the Euclidean distance of     *)
(* Location.distance is the absolute difference.  A bounding box is named  *)
(* by a number, 1, 2, ...; a bounding_box of None is 0.                    *)
(***************************************************************************)
MatchIdle ==
    /\ speed_signs = <<>>
    /\ loc_bboxes = <<>>
    /\ camera_yaw = 0
    /\ m_pc = "idle"
    /\ m_next = 1
    /\ result = <<>>
    /\ bbox_writes = <<>>

\* Sign locations and yaws, box locations, camera yaws.  Yaws are in
\* [-180, 180], as the simulator gives them.
SignLocations == {0, 30}
SignYaws == {30, 90, 150, -170}
BoxLocations == {5, 15, 25, 55}
CameraYaws == {0, 100}

Signs == [location : SignLocations, yaw : SignYaws, bounding_box : {0}]

SeqsUpTo(S, n) == UNION {[1..k -> S] : k \in 0..n}

\* The i-th pair of the zip carries the i-th box.
LocBboxes(n) ==
    {[i \in 1..n |-> [location |-> l[i], bbox |-> i]] :
        l \in [1..n -> BoxLocations]}

MatchInit ==
    /\ speed_signs \in SeqsUpTo(Signs, MaxSigns)
    /\ loc_bboxes \in UNION {LocBboxes(n) : n \in 0..MaxBoxes}
    /\ camera_yaw \in CameraYaws
    /\ m_pc = "loop"
    /\ m_next = 1
    /\ result = <<>>
    /\ bbox_writes = [i \in 1..Len(speed_signs) |-> 0]

\* Location.distance
distance(a, b) == Abs(a - b)

\* A variant that takes the last one among equally near signs.
RECURSIVE nearest_last(_, _, _, _, _)
nearest_last(location, signs, k, best_ts, best_dist) ==
    IF k > Len(signs) THEN [best_ts |-> best_ts, best_dist |-> best_dist]
    ELSE LET dist == distance(location, signs[k].location)
         IN  IF dist <= best_dist
             THEN nearest_last(location, signs, k + 1, k, dist)
             ELSE nearest_last(location, signs, k + 1, best_ts, best_dist)

\* Lines 251-257: the nearest sign, the first one among equally near signs.
\* best_ts is the sign's index, 0 for None.
RECURSIVE nearest(_, _, _, _, _)
nearest(location, signs, k, best_ts, best_dist) ==
    IF k > Len(signs) THEN [best_ts |-> best_ts, best_dist |-> best_dist]
    ELSE LET dist == distance(location, signs[k].location)
         IN  IF dist < best_dist
             THEN nearest(location, signs, k + 1, k, dist)
             ELSE nearest(location, signs, k + 1, best_ts, best_dist)

\* Lines 261-266: the yaw difference, brought back by one turn.
yaw_difference(sign_yaw, cam_yaw) ==
    LET yaw_diff == sign_yaw - cam_yaw
    IN  IF yaw_diff < 0 THEN yaw_diff + 360
        ELSE IF yaw_diff >= 360 THEN yaw_diff - 360
        ELSE yaw_diff

\* Variants that accept the bounds themselves.
within_distance_inclusive(best_dist) == best_dist <= MaxDistance

facing_inclusive(yaw_diff) == yaw_diff >= YawLow /\ yaw_diff <= YawHigh

\* Line 267: the two conditions of a match.
within_distance(best_dist) == best_dist < MaxDistance

facing(yaw_diff) == yaw_diff > YawLow /\ yaw_diff < YawHigh

\* What one iteration of the loop decides for a pair: the sign the box is
\* matched with, 0 for none.
matched_sign(location, signs, cam_yaw) ==
    LET b == nearest(location, signs, 1, 0, BestDistInit)
    IN  IF b.best_ts = 0 THEN 0
        ELSE IF /\ within_distance(b.best_dist)
                /\ facing(yaw_difference(signs[b.best_ts].yaw, cam_yaw))
             THEN b.best_ts
             ELSE 0

\* A variant of the iteration that gives the box to the nearest sign before
\* it tests the distance and the yaw.
match_step_writing_first ==
    /\ m_pc = "loop"
    /\ m_next <= Len(loc_bboxes)
    /\ LET pair == loc_bboxes[m_next]
           best_ts == nearest(pair.location, speed_signs, 1, 0,
                              BestDistInit).best_ts
           ts == matched_sign(pair.location, speed_signs, camera_yaw)
       IN  /\ speed_signs' =
                  IF best_ts = 0 THEN speed_signs
                  ELSE [speed_signs EXCEPT ![best_ts].bounding_box = pair.bbox]
           /\ bbox_writes' =
                  IF best_ts = 0 THEN bbox_writes
                  ELSE [bbox_writes EXCEPT ![best_ts] = @ + 1]
           /\ result' = IF ts = 0 THEN result ELSE Append(result, ts)
    /\ m_next' = m_next + 1
    /\ UNCHANGED <<loc_bboxes, camera_yaw, m_pc>>
    /\ UNCHANGED <<opvars, cvars, dvars, svars, lvars, hvars>>

\* Lines 250-269: one iteration of the for loop.
match_step ==
    /\ m_pc = "loop"
    /\ m_next <= Len(loc_bboxes)
    /\ LET pair == loc_bboxes[m_next]
           ts == matched_sign(pair.location, speed_signs, camera_yaw)
       IN  IF ts = 0
           THEN UNCHANGED <<speed_signs, result, bbox_writes>>
           ELSE /\ speed_signs' =
                       [speed_signs EXCEPT ![ts].bounding_box = pair.bbox]
                /\ result' = Append(result, ts)
                /\ bbox_writes' = [bbox_writes EXCEPT ![ts] = @ + 1]
    /\ m_next' = m_next + 1
    /\ UNCHANGED <<loc_bboxes, camera_yaw, m_pc>>
    /\ UNCHANGED <<opvars, cvars, dvars, svars, lvars, hvars>>

\* Line 270: the loop is over and the list is returned.
match_return ==
    /\ m_pc = "loop"
    /\ m_next > Len(loc_bboxes)
    /\ m_pc' = "returned"
    /\ m_returns' = Append(m_returns,
           [result |-> result,
            bounding_boxes |-> [k \in 1..Len(speed_signs) |->
                                   speed_signs[k].bounding_box]])
    /\ UNCHANGED <<speed_signs, loc_bboxes, camera_yaw, m_next, result,
                   bbox_writes>>
    /\ UNCHANGED <<opvars, cvars, depth_frame, svars, lvars, hvars>>

(***************************************************************************)
(* get_detected_speed_limits and get_detected_traffic_stops: the check of  *)
(* the depth_frame argument.  The argument is known by its type.           *)
(***************************************************************************)
DepthFrameTypes == {"DepthFrame", "NoneType"}

DetectIdle ==
    /\ depth_frame = "DepthFrame"
    /\ m_returns = <<>>

\* A variant that takes any argument for a depth frame.
isinstance_any(frame, type) == TRUE

\* isinstance(depth_frame, DepthFrame)
isinstance(frame, type) == frame = type

\* get_detected_speed_limits is called on any boxes and depth_frame, and on
\* signs that face east or west.
EastWestSigns == {ts \in Signs : ts.yaw \in {90, -170}}

SpeedLimitsInit ==
    /\ speed_signs \in SeqsUpTo(EastWestSigns, MaxSigns)
    /\ loc_bboxes \in UNION {LocBboxes(n) : n \in 0..MaxBoxes}
    /\ camera_yaw \in CameraYaws
    /\ m_pc = "entry"
    /\ m_next = 1
    /\ result = <<>>
    /\ bbox_writes = [i \in 1..Len(speed_signs) |-> 0]

\* Lines 272-284: the argument is checked, then the matcher is called.
get_detected_speed_limits ==
    /\ m_pc = "entry"
    /\ m_pc' = IF ~isinstance(depth_frame, "DepthFrame")
               THEN "raised" ELSE "loop"
    /\ UNCHANGED <<speed_signs, loc_bboxes, camera_yaw, m_next, result,
                   bbox_writes>>
    /\ UNCHANGED <<opvars, cvars, dvars, svars, lvars, hvars>>

\* The caller calls get_detected_speed_limits once more on the same frames
\* and the same list of signs, which now carry the boxes of the last call.
speed_limits_again ==
    /\ m_pc = "returned"
    /\ Len(m_returns) < MaxMatchCalls
    /\ m_pc' = "entry"
    /\ m_next' = 1
    /\ result' = <<>>
    /\ bbox_writes' = [i \in 1..Len(speed_signs) |-> 0]
    /\ UNCHANGED <<speed_signs, loc_bboxes, camera_yaw>>
    /\ UNCHANGED <<opvars, cvars, dvars, svars, lvars, hvars>>

(***************************************************************************)
(* get_detected_traffic_stops                                              *)
(*                                                                         *)
(* A stop sign carries the four corners of its footprint as the camera     *)
(* sees them (loc_view): x and y in tenths of a pixel, z in tenths of a    *)
(* metre, and the depth the depth frame holds at the pixel of its first    *)
(* corner, in tenths of a metre.  A bounding_box of None is NoBox.         *)
(***************************************************************************)
NoBox == [none |-> TRUE]

StopsIdle ==
    /\ traffic_stops = <<>>
    /\ s_pc = "idle"
    /\ s_next = 1
    /\ det_stop_signs = <<>>
    /\ coords = <<>>

\* depth_frame.camera_setup, in pixels.
camera_setup == [width |-> 40, height |-> 30]

\* A footprint whose four corners are in the image, and the corners that
\* may stand in the place of its first or of its last corner: two more in
\* the image, one on each bound of the image, one left of the image, one
\* at depth 0, one behind the camera.
InImage ==
    << [x |-> 10, y |-> 5, z |-> 50], [x |-> 395, y |-> 5, z |-> 50],
       [x |-> 10, y |-> 150, z |-> 50], [x |-> 395, y |-> 166, z |-> 50] >>

OtherCorners ==
    { [x |-> 100, y |-> 155, z |-> 50], [x |-> 100, y |-> 158, z |-> 50],
      [x |-> 400, y |-> 100, z |-> 50], [x |-> 100, y |-> 300, z |-> 50],
      [x |-> -1, y |-> 100, z |-> 50], [x |-> 100, y |-> 158, z |-> 0],
      [x |-> 100, y |-> 100, z |-> -10] }

Footprints ==
    {InImage} \cup
    {[InImage EXCEPT ![i] = c] : i \in {1, 4}, c \in OtherCorners}

FrameDepths == {50, 53, 90}

StopSigns ==
    [loc_views : Footprints, frame_depth : FrameDepths, bounding_box : {NoBox}]

StopsInit ==
    /\ traffic_stops \in SeqsUpTo(StopSigns, MaxStops)
    /\ s_pc = "entry"
    /\ s_next = 1
    /\ det_stop_signs = <<>>
    /\ coords = <<>>

\* A variant that rounds up.
int_rounding_up(v) == (v + 9) \div 10

\* int() of a number given in tenths: the digits after the point are dropped.
int(v) == IF v >= 0 THEN v \div 10 ELSE -((-v) \div 10)

BoundingBox2D(x_min, x_max, y_min, y_max) ==
    [x_min |-> x_min, x_max |-> x_max, y_min |-> y_min, y_max |-> y_max]

\* DepthFrame.pixel_has_same_depth: the depth held at the pixel is the
\* depth z of the point, within the threshold.
pixel_has_same_depth(frame_depth, z, threshold) ==
    Abs(frame_depth - z) < threshold

\* Lines 329-331: the corner is kept.
in_image(loc_view) ==
    /\ loc_view.z >= 0
    /\ loc_view.x >= 0
    /\ loc_view.y >= 0
    /\ loc_view.x < camera_setup.width * 10
    /\ loc_view.y < camera_setup.height * 10

\* A variant that takes a box of the minimum height.
readable_inclusive(ymin, ymax) == ymax - ymin >= MinHeight

\* Line 340: the box is high enough for the text to be readable.
readable(ymin, ymax) == ymax - ymin > MinHeight

SetMin(S) == CHOOSE v \in S : \A w \in S : v <= w

SetMax(S) == CHOOSE v \in S : \A w \in S : v >= w

\* Lines 323-344: the corners kept, and the box or NoBox.
get_stop_markings_bbox(loc_views, frame_depth) ==
    LET cs == SelectSeq(loc_views, in_image)
    IN  [coords |-> cs,
         bbox |->
            IF Len(cs) = 4
            THEN LET xmin == SetMin({cs[i].x : i \in 1..4})
                     xmax == SetMax({cs[i].x : i \in 1..4})
                     ymin == SetMin({cs[i].y : i \in 1..4})
                     ymax == SetMax({cs[i].y : i \in 1..4})
                 IN  IF /\ readable(ymin, ymax)
                        /\ pixel_has_same_depth(frame_depth, cs[1].z,
                                                DepthTolerance)
                     THEN BoundingBox2D(int(xmin), int(xmax), int(ymin),
                                        int(ymax))
                     ELSE NoBox
            ELSE NoBox]

\* Lines 346-349: the argument is checked, then the loop begins.
get_detected_traffic_stops ==
    /\ s_pc = "entry"
    /\ s_pc' = IF ~isinstance(depth_frame, "DepthFrame")
               THEN "raised" ELSE "loop"
    /\ UNCHANGED <<traffic_stops, s_next, det_stop_signs, coords>>
    /\ UNCHANGED <<opvars, cvars, mvars, dvars, lvars, hvars>>

\* Lines 350-355: one iteration of the for loop.
stops_step ==
    /\ s_pc = "loop"
    /\ s_next <= Len(traffic_stops)
    /\ LET stop_sign == traffic_stops[s_next]
           r == get_stop_markings_bbox(stop_sign.loc_views,
                                       stop_sign.frame_depth)
       IN  /\ coords' = r.coords
           /\ IF r.bbox # NoBox
              THEN /\ traffic_stops' =
                          [traffic_stops EXCEPT ![s_next].bounding_box = r.bbox]
                   /\ det_stop_signs' = Append(det_stop_signs, s_next)
              ELSE UNCHANGED <<traffic_stops, det_stop_signs>>
    /\ s_next' = s_next + 1
    /\ UNCHANGED s_pc
    /\ UNCHANGED <<opvars, cvars, mvars, dvars, lvars, hvars>>

\* Line 356: the loop is over and the list is returned.
stops_return ==
    /\ s_pc = "loop"
    /\ s_next > Len(traffic_stops)
    /\ s_pc' = "returned"
    /\ UNCHANGED <<traffic_stops, s_next, det_stop_signs, coords>>
    /\ UNCHANGED <<opvars, cvars, mvars, dvars, lvars, hvars>>

(***************************************************************************)
(* ChauffeurLoggerOperator (loggers/chauffeur_logger_operator.py).  A       *)
(* transform is a whole number, a translation along one axis, and a        *)
(* waypoint is a whole number on that axis.  None is 0 for the vehicle id  *)
(* and the transforms; the waypoints are NoWaypoints for None and a record *)
(* holding the list otherwise.  A file is its name's stem and the number   *)
(* in its name.                                                            *)
(***************************************************************************)
Transforms == {1, 2}
VehicleIds == {1, 2}
Trajectories == {<<>>, <<3, 5>>}
LoggerTimestamps == {1, 2}
MaxObjects == 2

NoWaypoints == [none |-> TRUE]

Waypoints(points) == [points |-> points]

\* Lines 47-54 of __init__.
LoggerIdle ==
    /\ _ground_vehicle_id = 0
    /\ _waypoints = NoWaypoints
    /\ _global_transforms = <<>>
    /\ _current_transform = 0
    /\ _previous_transform = 0
    /\ files = {}
    /\ transforms_seen = <<>>
    /\ t_raised = "idle"
    /\ ego_recorded = FALSE
    /\ l_calls = 0

Obstacles == [obj_id : VehicleIds, trajectory : Trajectories]

TrackingMsgs ==
    [timestamp : LoggerTimestamps,
     obj_trajectories : UNION {[1..n -> Obstacles] : n \in 0..MaxObjects}]

LoggerCanBusMsgs == [timestamp : LoggerTimestamps, transform : Transforms]

\* deque.append on a deque built with maxlen: when it is full, the entry at
\* the other end is discarded.
deque_append(d, x, maxlen) ==
    IF Len(d) = maxlen THEN Append(Tail(d), x) ELSE Append(d, x)

\* A variant of the loop at lines 173-174 that appends once.
fill_once(d, x) ==
    IF Len(d) # _buffer_length THEN deque_append(d, x, _buffer_length) ELSE d

\* Lines 173-174: while len(self._global_transforms) != self._buffer_length.
RECURSIVE fill(_, _)
fill(d, x) ==
    IF Len(d) # _buffer_length
    THEN fill(deque_append(d, x, _buffer_length), x)
    ELSE d

\* Lines 170-190.
logger_on_can_bus_update(msg) ==
    /\ _current_transform' = msg.transform
    /\ LET filled == fill(_global_transforms, msg.transform)
       IN  /\ _previous_transform' = Head(filled)
           /\ _global_transforms' =
                  deque_append(Tail(filled), msg.transform, _buffer_length)
    /\ files' = files \cup {[name |-> "heading", n |-> msg.timestamp],
                            [name |-> "speed", n |-> msg.timestamp]}
    /\ transforms_seen' = Append(transforms_seen, msg.transform)
    /\ l_calls' = l_calls + 1
    /\ UNCHANGED <<_ground_vehicle_id, _waypoints, t_raised, ego_recorded>>
    /\ UNCHANGED <<opvars, cvars, mvars, dvars, svars, hvars>>

\* Lines 167-168.
on_ground_vehicle_id_update(data) ==
    /\ _ground_vehicle_id' = data
    /\ l_calls' = l_calls + 1
    /\ UNCHANGED <<_waypoints, _global_transforms, _current_transform,
                   _previous_transform, files, transforms_seen, t_raised,
                   ego_recorded>>
    /\ UNCHANGED <<opvars, cvars, mvars, dvars, svars, hvars>>

\* Transform.transform_points and Transform.inverse_transform_points of a
\* translation.
transform_points(transform, point) == point + transform

inverse_transform_points(transform, point) == point - transform

\* Lines 86-95: the trajectory of the last object that carries the ego
\* vehicle's id, or the waypoints kept so far.  The variant takes the
\* trajectory of any object.
RECURSIVE ego_trajectory_of_any(_, _, _)
ego_trajectory_of_any(objs, id, waypoints) ==
    IF objs = <<>> THEN waypoints
    ELSE ego_trajectory_of_any(Tail(objs), id,
                               Waypoints(Head(objs).trajectory))

RECURSIVE ego_trajectory(_, _, _)
ego_trajectory(objs, id, waypoints) ==
    IF objs = <<>> THEN waypoints
    ELSE ego_trajectory(Tail(objs), id,
                        IF Head(objs).obj_id = id
                        THEN Waypoints(Head(objs).trajectory)
                        ELSE waypoints)

\* Lines 108-112.
to_current_frame(points, current, previous) ==
    [i \in 1..Len(points) |->
         transform_points(current,
                          inverse_transform_points(previous, points[i]))]

\* Lines 115-120.
centered(points) ==
    [i \in 1..Len(points) |->
         inverse_transform_points(points[1], points[i])]

\* Lines 73-157.  Iterating None at line 111 raises TypeError, a transform
\* that is None raises AttributeError at line 109 for the first waypoint, and
\* an empty list raises IndexError at line 116.
on_tracking_update(msg) ==
    LET taken == ego_trajectory(msg.obj_trajectories, _ground_vehicle_id,
                                _waypoints)
    IN  /\ l_calls' = l_calls + 1
        /\ ego_recorded' =
               \/ ego_recorded
               \/ \E i \in 1..Len(msg.obj_trajectories) :
                      /\ msg.obj_trajectories[i].obj_id = _ground_vehicle_id
                      /\ msg.obj_trajectories[i].trajectory # <<>>
        /\ IF taken = NoWaypoints
           THEN /\ t_raised' = "TypeError"
                /\ UNCHANGED <<_waypoints, files>>
           ELSE IF taken.points # <<>> /\ _current_transform = 0
           THEN /\ t_raised' = "AttributeError"
                /\ _waypoints' = taken
                /\ UNCHANGED files
           ELSE IF taken.points = <<>>
           THEN /\ t_raised' = "IndexError"
                /\ _waypoints' = Waypoints(<<>>)
                /\ UNCHANGED files
           ELSE LET moved == to_current_frame(taken.points, _current_transform,
                                              _previous_transform)
                    n == msg.timestamp - Len(moved) * 100
                IN  /\ t_raised' = None
                    /\ _waypoints' = Waypoints(centered(moved))
                    /\ files' = files \cup
                           {[name |-> "future_poses", n |-> n],
                            [name |-> "waypoints", n |-> n],
                            [name |-> "past_poses", n |-> msg.timestamp]}
        /\ UNCHANGED <<_ground_vehicle_id, _global_transforms,
                       _current_transform, _previous_transform,
                       transforms_seen>>
        /\ UNCHANGED <<opvars, cvars, mvars, dvars, svars, hvars>>

(***************************************************************************)
(* get_vehicle_handle (simulation/utils.py, lines 359-367).  A handle is   *)
(* the id of the actor found, and 0 is None.                               *)
(***************************************************************************)
HandleIdle ==
    /\ vehicle_id = 0
    /\ num_tries = 0
    /\ lookups = 0
    /\ vehicle = 0
    /\ h_pc = "idle"

\* A variant of the loop condition that allows one more try.
tries_left_inclusive(n) == n <= MaxTries

\* Line 361: while num_tries < 50.
tries_left(n) == n < MaxTries

\* Line 363: if vehicle.
truthy(v) == v # 0

\* Lines 359-360: the call, on any vehicle id.
get_vehicle_handle(id) ==
    /\ h_pc = "idle"
    /\ vehicle_id' = id
    /\ num_tries' = 0
    /\ h_pc' = "loop"
    /\ UNCHANGED <<lookups, vehicle>>
    /\ UNCHANGED <<opvars, cvars, mvars, dvars, svars, lvars>>

\* Lines 361-366: one iteration; the world has the actor or it has not.
find_vehicle ==
    /\ h_pc = "loop"
    /\ tries_left(num_tries)
    /\ \E found \in {0, vehicle_id} :
           /\ vehicle' = found
           /\ lookups' = lookups + 1
           /\ IF truthy(found)
              THEN h_pc' = "returned" /\ UNCHANGED num_tries
              ELSE h_pc' = "loop" /\ num_tries' = num_tries + 1
    /\ UNCHANGED vehicle_id
    /\ UNCHANGED <<opvars, cvars, mvars, dvars, svars, lvars>>

\* Line 367: the loop is over.
raise_value_error ==
    /\ h_pc = "loop"
    /\ ~tries_left(num_tries)
    /\ h_pc' = "raised"
    /\ UNCHANGED <<vehicle_id, num_tries, lookups, vehicle>>
    /\ UNCHANGED <<opvars, cvars, mvars, dvars, svars, lvars>>

(***************************************************************************)
(* The specifications.                                                     *)
(***************************************************************************)
\* The operator with its runtime.
OtherIdle == LoggerIdle /\ HandleIdle

Init ==
    /\ OperatorInit /\ ControlIdle /\ MatchIdle /\ DetectIdle /\ StopsIdle
    /\ OtherIdle

Next ==
    \/ \E msg \in CanBusMsgs(low_watermark["can_bus"] + 1) :
           MayDeliver("can_bus") /\ on_can_bus_update(msg)
    \/ \E msg \in WaypointMsgs(low_watermark["waypoints"] + 1) :
           MayDeliver("waypoints") /\ on_waypoints_update(msg)
    \/ \E msg \in ObstacleMsgs(low_watermark["obstacles"] + 1) :
           MayDeliver("obstacles") /\ on_obstacles_update(msg)
    \/ \E msg \in TrafficLightMsgs(low_watermark["traffic_lights"] + 1) :
           MayDeliver("traffic_lights") /\ on_traffic_lights_update(msg)
    \/ \E s \in Streams : SendWatermark(s)
    \/ \E t \in 1..MaxT : on_watermark(t)

Spec == Init /\ [][Next]_vars

\* get_control_message, called up to MaxCalls times on any arguments.
InitControl ==
    /\ OperatorInit /\ ControlIdle /\ MatchIdle /\ DetectIdle /\ StopsIdle
    /\ OtherIdle

NextControl == \E a \in ControlArgs : control_call(a)

SpecControl == InitControl /\ [][NextControl]_vars

\* One call of match_bboxes_with_speed_signs on any signs and boxes.
InitMatch ==
    /\ OperatorInit /\ ControlIdle /\ MatchInit /\ DetectIdle /\ StopsIdle
    /\ OtherIdle

NextMatch == match_step \/ match_return

SpecMatch == InitMatch /\ [][NextMatch]_vars

\* One call of get_detected_traffic_stops on any stop signs and depth_frame.
InitStops ==
    /\ OperatorInit /\ ControlIdle /\ MatchIdle /\ OtherIdle
    /\ depth_frame \in DepthFrameTypes
    /\ m_returns = <<>>
    /\ StopsInit

NextStops == get_detected_traffic_stops \/ stops_step \/ stops_return

SpecStops == InitStops /\ [][NextStops]_vars

\* The caller calls one of the two detection functions: the speed limits
\* up to MaxMatchCalls times on the same inputs, the traffic stops once.
InitDetect ==
    /\ OperatorInit /\ ControlIdle /\ OtherIdle
    /\ depth_frame \in DepthFrameTypes
    /\ m_returns = <<>>
    /\ \/ SpeedLimitsInit /\ StopsIdle
       \/ MatchIdle /\ StopsInit

NextDetect ==
    \/ get_detected_speed_limits
    \/ match_step
    \/ match_return
    \/ speed_limits_again
    \/ get_detected_traffic_stops
    \/ stops_step
    \/ stops_return

SpecDetect == InitDetect /\ [][NextDetect]_vars

\* The logger receives can bus messages and nothing else.
InitLogger ==
    /\ OperatorInit /\ ControlIdle /\ MatchIdle /\ DetectIdle /\ StopsIdle
    /\ OtherIdle

NextCanBus ==
    \E msg \in LoggerCanBusMsgs :
        l_calls < MaxUpdates /\ logger_on_can_bus_update(msg)

SpecCanBus == InitLogger /\ [][NextCanBus]_vars

\* The callbacks of the logger in any order, on any messages.
NextLogger ==
    \/ \E data \in VehicleIds :
           l_calls < MaxLoggerCalls /\ on_ground_vehicle_id_update(data)
    \/ \E msg \in LoggerCanBusMsgs :
           l_calls < MaxLoggerCalls /\ logger_on_can_bus_update(msg)
    \/ \E msg \in TrackingMsgs :
           l_calls < MaxLoggerCalls /\ on_tracking_update(msg)

SpecLogger == InitLogger /\ [][NextLogger]_vars

\* One call of get_vehicle_handle; the runtime keeps executing it until it
\* returns or raises.
InitHandle ==
    /\ OperatorInit /\ ControlIdle /\ MatchIdle /\ DetectIdle /\ StopsIdle
    /\ OtherIdle

NextHandle ==
    \/ \E id \in VehicleIds : get_vehicle_handle(id)
    \/ find_vehicle
    \/ raise_value_error

SpecHandle == InitHandle /\ [][NextHandle]_vars /\ WF_vars(NextHandle)

(***************************************************************************)
(* Properties of GroundAgentOperator (under Spec).                         *)
(***************************************************************************)
Timestamps(seq) == [i \in 1..Len(seq) |-> seq[i].timestamp]

\* Sequence q begins with sequence p.
IsPrefix(p, q) == Len(p) <= Len(q) /\ \A i \in 1..Len(p) : q[i] = p[i]

InList(k, list) == \E i \in 1..Len(list) : list[i] = k

\* Every stream has delivered exactly one message per timestep so far, and
\* no can bus message carried a negative speed.
OneMessagePerTimestep == Anomalies = 0

Normal ==
    /\ OneMessagePerTimestep
    /\ \A i \in 1..Len(received["can_bus"]) :
           received["can_bus"][i].forward_speed >= 0

\* A step of on_watermark.
WatermarkStep == watermark' # watermark

SomeQueueEmpty ==
    \/ _can_bus_msgs = <<>>
    \/ _waypoint_msgs = <<>>
    \/ _obstacle_msgs = <<>>
    \/ _traffic_light_msgs = <<>>

\* C1: at most one command exists per timestep, and the command of
\* timestep t is on the control stream only when each of the four streams
\* has had a message for t appended to its queue.
C1_OneCommandAfterAllInputs ==
    /\ \A i, j \in 1..Len(control_stream) :
           i # j => control_stream[i].timestamp # control_stream[j].timestamp
    /\ \A i \in 1..Len(control_stream) : \A s \in Streams :
           Delivered(s, control_stream[i].timestamp) >= 1

\* C2: when every stream delivers exactly one message per timestep, the
\* four messages popped by on_watermark(t) carry timestamp t, whatever
\* the interleaving of the callbacks.
C2_PoppedCarryWatermarkTimestamp ==
    (OneMessagePerTimestep /\ watermark >= 1) =>
        \A s \in Streams : popped[s].timestamp = watermark

\* on_watermark(1) ran while messages of timestep 2 were already queued.
C2_Witness ==
    /\ OneMessagePerTimestep
    /\ watermark = 1
    /\ backlog > 0
    /\ \A s \in Streams : popped[s].timestamp = 1

\* C3: under normal operation the commands on the control stream are those
\* of timesteps 1, 2, ..., watermark, one each, in this order.
C3_OneCommandPerFiredTimestep ==
    Normal => Timestamps(control_stream) = [i \in 1..watermark |-> i]

C3_Witness ==
    /\ Normal
    /\ watermark = MaxT
    /\ Len(control_stream) = MaxT

\* C4: an invocation of on_watermark that finds one of the four queues
\* empty ends with an error and sends nothing.
C4_NoCommandOnMissingInput ==
    [][(WatermarkStep /\ SomeQueueEmpty) =>
          (raised' = "IndexError" /\ control_stream' = control_stream)]_vars

C4_Witness ==
    /\ raised = "IndexError"
    /\ watermark >= 1
    /\ Len(control_stream) < watermark

\* C5: an invocation of on_watermark that consumes a can bus message with a
\* negative forward_speed ends with the assertion's error and sends nothing.
C5_NoCommandOnNegativeSpeed ==
    [][(WatermarkStep /\ ~SomeQueueEmpty
            /\ Head(_can_bus_msgs).forward_speed < 0) =>
          (raised' = "AssertionError" /\ control_stream' = control_stream)]_vars

C5_Witness ==
    /\ raised = "AssertionError"
    /\ popped["can_bus"].forward_speed < 0
    /\ Len(control_stream) < watermark

(***************************************************************************)
(* Properties of get_control_message (under SpecControl).                  *)
(***************************************************************************)
Returned == c_calls > 0 /\ c_ret.raised = None

NominalTimesFactor == (c_args.fl.target_speed * c_args.speed_factor) \div 10

\* C6: the adjusted target speed is half of target_speed * speed_factor
\* exactly when the magnitude of the angular rate is at or above the
\* threshold, and the full product below it.
C6_HalvedInCorners ==
    Returned =>
        c_ret.target = IF Abs(c_args.wp_angle_speed) >= CornerThreshold
                       THEN NominalTimesFactor \div 2
                       ELSE NominalTimesFactor

SignIndices == 1..Len(speed_signs)

DistanceTo(k, location) == distance(location, speed_signs[k].location)

\* The yaw difference of sign k, in [0, 360).
YawDiff(k) == (speed_signs[k].yaw - camera_yaw) % 360

InBand(k) == YawDiff(k) > YawLow /\ YawDiff(k) < YawHigh

\* The first of the signs at minimum distance from a location.
FirstNearest(location) ==
    CHOOSE k \in SignIndices :
        \A j \in SignIndices :
            /\ DistanceTo(k, location) <= DistanceTo(j, location)
            /\ DistanceTo(j, location) = DistanceTo(k, location) => k <= j

\* A step of the loop, and whether it matched the box it took.
LoopStep == m_next' = m_next + 1

StepMatched == Len(result') = Len(result) + 1

\* C8: in the list one call returns no sign appears twice, and the call has
\* assigned the bounding_box of each sign at most once.
C8_OneBoxPerSign ==
    m_pc = "returned" =>
        /\ \A i, j \in 1..Len(result) : i # j => result[i] # result[j]
        /\ \A k \in SignIndices : bbox_writes[k] <= 1

\* C9: a box is matched only with a sign at minimum distance from the box's
\* location, and only when that distance is below 25; when no sign is nearer
\* than 25 (or there is no sign) the box is matched with nothing.
C9_NearestWithinMaxDistance ==
    [][LoopStep =>
          LET location == loc_bboxes[m_next].location
          IN  /\ result' = result \/ StepMatched
              /\ StepMatched =>
                    LET ts == result'[Len(result')]
                    IN  /\ \A j \in SignIndices :
                              DistanceTo(ts, location) <= DistanceTo(j, location)
                        /\ DistanceTo(ts, location) < MaxDistance
                        /\ speed_signs'[ts].bounding_box = loc_bboxes[m_next].bbox
              /\ (\A j \in SignIndices : DistanceTo(j, location) >= MaxDistance)
                    => result' = result]_vars

\* Every box is 25 or more from every sign, some sign faces the camera, and
\* the call returned no match.
C9_Witness ==
    /\ m_pc = "returned"
    /\ result = <<>>
    /\ loc_bboxes # <<>>
    /\ \E k \in SignIndices : InBand(k)
    /\ \E i \in 1..Len(loc_bboxes) : \E k \in SignIndices :
           DistanceTo(k, loc_bboxes[i].location) = MaxDistance

\* C10: a box is matched only when the yaw difference of its nearest sign
\* is strictly between 30 and 150; when it is not, the box is matched with
\* nothing, whatever the other signs are.
C10_FacingBandOfNearestOnly ==
    [][LoopStep =>
          LET location == loc_bboxes[m_next].location
          IN  /\ StepMatched => InBand(result'[Len(result')])
              /\ (speed_signs # <<>> /\ ~InBand(FirstNearest(location)))
                    => result' = result]_vars

\* One box, whose nearest sign is near enough but outside the band, and
\* another sign that is near enough and inside the band: no match.
C10_Witness ==
    /\ m_pc = "returned"
    /\ result = <<>>
    /\ Len(loc_bboxes) = 1
    /\ Len(speed_signs) = 2
    /\ LET location == loc_bboxes[1].location
           near == FirstNearest(location)
       IN  /\ DistanceTo(near, location) < MaxDistance
           /\ ~InBand(near)
           /\ \E k \in SignIndices :
                  k # near /\ InBand(k) /\ DistanceTo(k, location) < MaxDistance

(***************************************************************************)
(* Properties of get_detected_traffic_stops (under SpecStops).             *)
(***************************************************************************)
StopIndices == 1..Len(traffic_stops)

\* A step of the loop over the stop signs.
StopStep == s_next' = s_next + 1

\* The step reports the stop sign it looks at as detected.
StopDetected == det_stop_signs' = Append(det_stop_signs, s_next)

\* The height of the footprint of stop sign k, from its four corners.
FootprintHeight(k) ==
    LET ys == {traffic_stops[k].loc_views[i].y : i \in 1..4}
    IN  SetMax(ys) - SetMin(ys)

\* The depth frame holds, at the first corner of stop sign k, the depth of
\* that corner within 0.4 m.
ProbeSucceeds(k) ==
    LET d == traffic_stops[k].frame_depth - traffic_stops[k].loc_views[1].z
    IN  d > -DepthTolerance /\ d < DepthTolerance

\* The pixel of a corner is inside the image.
PixelInside(c) ==
    /\ 0 <= c.x /\ c.x < camera_setup.width * 10
    /\ 0 <= c.y /\ c.y < camera_setup.height * 10

PixelsInside(k) ==
    Cardinality({i \in 1..4 : PixelInside(traffic_stops[k].loc_views[i])})

\* C11: a stop sign is reported as detected if and only if its four corners
\* are kept, its footprint is more than 15 pixels high and the depth probe
\* at its first corner succeeds; a stop sign of which three corners are
\* kept is not reported.
C11_DetectedIffFourCornersHeightProbe ==
    [][StopStep =>
          /\ StopDetected <=> /\ Len(coords') = 4
                              /\ FootprintHeight(s_next) > MinHeight
                              /\ ProbeSucceeds(s_next)
          /\ ~StopDetected => det_stop_signs' = det_stop_signs
          /\ Len(coords') = 3 => ~StopDetected]_vars

\* Two stop signs: one is detected, the other one has three of its four
\* corners inside the image, a high footprint and a good probe, and is not.
C11_Witness ==
    /\ s_pc = "returned"
    /\ Len(det_stop_signs) = 1
    /\ \E k \in StopIndices :
           /\ \A i \in 1..Len(det_stop_signs) : det_stop_signs[i] # k
           /\ PixelsInside(k) = 3
           /\ FootprintHeight(k) > MinHeight
           /\ ProbeSucceeds(k)

\* C12: every corner get_stop_markings_bbox keeps has a depth above 0 and a
\* pixel inside the image: a corner at depth 0 or behind the camera, or on
\* or beyond a bound of the image, is not among the corners kept.
C12_KeptCornersInFrontAndInside ==
    \A i \in 1..Len(coords) : coords[i].z > 0 /\ PixelInside(coords[i])

(***************************************************************************)
(* Properties of the two detection functions (under SpecDetect).           *)
(***************************************************************************)
NoDepthFrame == depth_frame # "DepthFrame"

PreviousBox(k) ==
    IF Len(m_returns) >= 2
    THEN m_returns[Len(m_returns) - 1].bounding_boxes[k] ELSE 0

\* C14: the detection functions change nothing in the lists they are given
\* but the bounding_box of the signs they return: the lists keep their
\* length and order, a sign keeps its other fields, a bounding_box is
\* written only to a sign that is put in the list to return, no sign leaves
\* that list, and a sign that is not returned has the bounding_box it had.
C14_OnlyReturnedBoundingBoxesWritten ==
    /\ [][/\ Len(speed_signs') = Len(speed_signs)
          /\ \A k \in SignIndices :
                 /\ speed_signs'[k].location = speed_signs[k].location
                 /\ speed_signs'[k].yaw = speed_signs[k].yaw
                 /\ speed_signs'[k].bounding_box # speed_signs[k].bounding_box
                        => result' = Append(result, k)
          /\ m_pc = "loop" => IsPrefix(result, result')
          /\ Len(traffic_stops') = Len(traffic_stops)
          /\ \A k \in StopIndices :
                 /\ traffic_stops'[k].loc_views = traffic_stops[k].loc_views
                 /\ traffic_stops'[k].frame_depth = traffic_stops[k].frame_depth
                 /\ traffic_stops'[k].bounding_box # traffic_stops[k].bounding_box
                        => det_stop_signs' = Append(det_stop_signs, k)
          /\ s_pc = "loop" => IsPrefix(det_stop_signs, det_stop_signs')]_vars
    /\ [](m_pc = "returned" =>
              \A k \in SignIndices :
                  ~InList(k, result) => speed_signs[k].bounding_box = PreviousBox(k))
    /\ [](s_pc = "returned" =>
              \A k \in StopIndices :
                  ~InList(k, det_stop_signs) => traffic_stops[k].bounding_box = NoBox)

\* The speed limits have returned for the second time: one sign is returned
\* with a box, another one is not and has none.
C14_Witness ==
    /\ m_pc = "returned"
    /\ Len(m_returns) = 2
    /\ \E k \in SignIndices : InList(k, result) /\ speed_signs[k].bounding_box # 0
    /\ \E k \in SignIndices : ~InList(k, result) /\ speed_signs[k].bounding_box = 0

\* The sign the i-th box is to be given to: the first of the nearest signs
\* when it is near enough and in the band, 0 otherwise.
ExpectedMatch(i) ==
    IF speed_signs = <<>> THEN 0
    ELSE LET location == loc_bboxes[i].location
             k == FirstNearest(location)
         IN  IF DistanceTo(k, location) < MaxDistance /\ InBand(k)
             THEN k ELSE 0

\* The list to return for the first n boxes.
RECURSIVE ExpectedResult(_)
ExpectedResult(n) ==
    IF n = 0 THEN <<>>
    ELSE IF ExpectedMatch(n) = 0 THEN ExpectedResult(n - 1)
    ELSE Append(ExpectedResult(n - 1), ExpectedMatch(n))

\* The box sign k is left with: the last one it was given, 0 for none.
ExpectedBox(k) ==
    LET given == {i \in 1..Len(loc_bboxes) : ExpectedMatch(i) = k}
    IN  IF given = {} THEN 0 ELSE loc_bboxes[SetMax(given)].bbox

\* C15: every call of get_detected_speed_limits on the same frames and the
\* same list of signs returns the same list and leaves the same
\* bounding_box on every sign, whatever boxes the call before has written;
\* a box goes to the first, in list order, of the signs nearest to it.
C15_SameMatchOnEveryCall ==
    \A c \in 1..Len(m_returns) :
        /\ m_returns[c] = m_returns[1]
        /\ m_returns[c].result = ExpectedResult(Len(loc_bboxes))
        /\ \A k \in SignIndices :
               m_returns[c].bounding_boxes[k] = ExpectedBox(k)

\* The second call has returned; a box has two signs equally near, both in
\* the band, and the first one has it.
C15_Witness ==
    /\ Len(m_returns) = 2
    /\ m_pc = "returned"
    /\ \E i \in 1..Len(loc_bboxes) : \E j, k \in SignIndices :
           /\ j < k
           /\ FirstNearest(loc_bboxes[i].location) = j
           /\ DistanceTo(j, loc_bboxes[i].location)
                  = DistanceTo(k, loc_bboxes[i].location)
           /\ InBand(j) /\ InBand(k)
           /\ DistanceTo(j, loc_bboxes[i].location) < MaxDistance
           /\ speed_signs[j].bounding_box = loc_bboxes[i].bbox
           /\ speed_signs[k].bounding_box = 0

(***************************************************************************)
(* More properties of GroundAgentOperator (under Spec).                    *)
(***************************************************************************)
\* C16: the controller is the new one until it is first run; it is run at
\* most once by a step, only by on_watermark, and changes only when it is
\* run; a step of an input callback or of a stream leaves the controller
\* and the control stream as they are and at most appends to the queues.
C16_ControllerOnlyRunByOnWatermark ==
    /\ [](pid_runs = 0 => _pid = PID)
    /\ [][/\ pid_runs' \in {pid_runs, pid_runs + 1}
          /\ _pid' # _pid => pid_runs' = pid_runs + 1
          /\ ~WatermarkStep =>
                 /\ _pid' = _pid
                 /\ pid_runs' = pid_runs
                 /\ control_stream' = control_stream
                 /\ IsPrefix(_can_bus_msgs, _can_bus_msgs')
                 /\ IsPrefix(_waypoint_msgs, _waypoint_msgs')
                 /\ IsPrefix(_obstacle_msgs, _obstacle_msgs')
                 /\ IsPrefix(_traffic_light_msgs, _traffic_light_msgs')]_vars

\* The controller has been run for two timesteps and is not the new one;
\* messages of the second timestep arrived between the two runs.
C16_Witness ==
    /\ pid_runs = 2
    /\ watermark = 2
    /\ _pid # PID
    /\ Len(control_stream) = 2

\* The hazard the messages popped by the last invocation carry.
HazardPopped ==
    popped.obstacles.obstacles \/ popped.traffic_lights.traffic_lights

C18_CommandCarriesWatermarkTimestamp ==
    /\ [](\A i \in 1..Len(control_stream) :
              ~control_stream[i].hand_brake /\ ~control_stream[i].reverse)
    /\ [][control_stream' # control_stream =>
              /\ WatermarkStep
              /\ Len(control_stream') = Len(control_stream) + 1
              /\ IsPrefix(control_stream, control_stream')
              /\ control_stream'[Len(control_stream')].timestamp = watermark']_vars

\* The command of timestep 1 was computed from the can bus message of
\* timestep 2 and carries timestamp 1.
C18_Witness ==
    /\ watermark = 1
    /\ raised = None
    /\ popped.can_bus.timestamp = 2
    /\ Len(control_stream) = 1
    /\ control_stream[1].timestamp = 1

\* The order of the pops, and the queue of a stream.
PopOrder == <<"can_bus", "waypoints", "obstacles", "traffic_lights">>

QueueOf(s) ==
    CASE s = "can_bus" -> _can_bus_msgs
      [] s = "waypoints" -> _waypoint_msgs
      [] s = "obstacles" -> _obstacle_msgs
      [] s = "traffic_lights" -> _traffic_light_msgs

\* The place, in the order of the pops, of the first empty queue.
FirstEmpty ==
    CHOOSE e \in 1..4 :
        /\ QueueOf(PopOrder[e]) = <<>>
        /\ \A i \in 1..(e - 1) : QueueOf(PopOrder[i]) # <<>>

\* C20: when on_watermark finds a queue empty, it fails after it has popped
\* the head of every queue before the first empty one in the order can bus,
\* waypoints, obstacles, traffic lights, and leaves that queue and every
\* queue after it as they are.
C20_PopsInOrderUntilEmptyQueue ==
    [][(WatermarkStep /\ SomeQueueEmpty) =>
          /\ raised' = "IndexError"
          /\ \A i \in 1..4 :
                 IF i < FirstEmpty
                 THEN /\ QueueOf(PopOrder[i])' = Tail(QueueOf(PopOrder[i]))
                      /\ popped'[PopOrder[i]] = Head(QueueOf(PopOrder[i]))
                 ELSE /\ QueueOf(PopOrder[i])' = QueueOf(PopOrder[i])
                      /\ popped'[PopOrder[i]] = NoMsg]_vars

\* on_watermark has failed on the empty queue of the obstacles: the heads
\* of the can bus and waypoint queues are gone, the traffic light queue
\* still holds its message.
C20_Witness ==
    /\ raised = "IndexError"
    /\ popped.can_bus # NoMsg
    /\ popped.waypoints # NoMsg
    /\ popped.obstacles = NoMsg
    /\ _can_bus_msgs = <<>>
    /\ _waypoint_msgs = <<>>
    /\ _traffic_light_msgs # <<>>

\* Stream s has closed timestep d with two messages or with none.
Mismatched(s, d) == d <= low_watermark[s] /\ Delivered(s, d) # 1

\* Stream s has delivered a message for every timestep it has closed.
NeverSkipped(s) == \A t \in 1..low_watermark[s] : Delivered(s, t) >= 1

LastCommand == control_stream[Len(control_stream)]

C21_NegativeSpeedPopsAllKeepsController ==
    /\ [][(WatermarkStep /\ ~SomeQueueEmpty
               /\ Head(_can_bus_msgs).forward_speed < 0) =>
              /\ raised' = "AssertionError"
              /\ \A i \in 1..4 :
                     /\ QueueOf(PopOrder[i])' = Tail(QueueOf(PopOrder[i]))
                     /\ popped'[PopOrder[i]] = Head(QueueOf(PopOrder[i]))
              /\ _pid' = _pid
              /\ pid_runs' = pid_runs]_vars
    /\ [][(WatermarkStep /\ raised = "AssertionError"
               /\ OneMessagePerTimestep') =>
              \A s \in Streams : popped'[s].timestamp = watermark']_vars

\* The command of timestep 1 was sent, on_watermark(2) has failed on a
\* negative speed: the controller is as timestep 1 left it.
C21_Witness ==
    /\ raised = "AssertionError"
    /\ watermark = 2
    /\ OneMessagePerTimestep
    /\ Len(control_stream) = 1
    /\ pid_runs = 1
    /\ _pid # PID
    /\ \A s \in Streams : popped[s].timestamp = 2

\* The messages of a sequence from place k + 1 on.
DropFirst(seq, k) == SubSeq(seq, k + 1, Len(seq))

\* The invocations of on_watermark that sent their command.
Completed == Len(control_stream)

\* C22 as the specification has it: the length of each queue is the number
\* of messages received on its source minus the number of watermarks
\* completed, whether those are the invocations that sent a command or all
\* the invocations made.
C22_QueueLengthIsReceivedMinusWatermarks ==
    \/ \A s \in Streams : Len(QueueOf(s)) = Len(received[s]) - Completed
    \/ \A s \in Streams : Len(QueueOf(s)) = Len(received[s]) - watermark

\* C22, as the code has it: a callback appends its message to the tail of
\* its own queue and changes no other queue; an invocation of on_watermark
\* that sends a command removes the head of each queue; each queue is what
\* its source has delivered, in order, less the messages popped from its
\* head, at most one per invocation of on_watermark, one per invocation
\* while none has failed.
C22_QueuesAreReceivedLessPopped ==
    /\ [][/\ ~WatermarkStep =>
                 \A s \in Streams :
                     \/ /\ QueueOf(s)' = QueueOf(s)
                        /\ received'[s] = received[s]
                     \/ /\ Len(received'[s]) = Len(received[s]) + 1
                        /\ IsPrefix(received[s], received'[s])
                        /\ QueueOf(s)' = Append(QueueOf(s),
                                                received'[s][Len(received'[s])])
                        /\ \A o \in Streams \ {s} : QueueOf(o)' = QueueOf(o)
          /\ control_stream' # control_stream =>
                 \A s \in Streams :
                     QueueOf(s) # <<>> /\ QueueOf(s)' = Tail(QueueOf(s))]_vars
    /\ [](\A s \in Streams :
              /\ \E k \in 0..watermark : QueueOf(s) = DropFirst(received[s], k)
              /\ Completed = watermark =>
                     QueueOf(s) = DropFirst(received[s], watermark))

\* One command sent, and two can bus messages received since the start, of
\* which the second one is in the queue.
C22_Witness ==
    /\ watermark = 1
    /\ Completed = 1
    /\ Len(received.can_bus) = 2
    /\ _can_bus_msgs = <<received.can_bus[2]>>

(***************************************************************************)
(* More properties of get_detected_traffic_stops (under SpecStops).        *)
(***************************************************************************)
\* C23: the box given to a stop sign lies in the image, 0 <= x_min <= x_max
\* < width and 0 <= y_min <= y_max < height in whole pixels, and is at
\* least 15 pixels high; the list to return holds stop signs of the input
\* list in the order of that list, none of them twice.
C23_BoxInImageAndResultInOrder ==
    /\ \A k \in StopIndices :
           LET box == traffic_stops[k].bounding_box
           IN  box # NoBox =>
                   /\ 0 <= box.x_min /\ box.x_min <= box.x_max
                   /\ box.x_max < camera_setup.width
                   /\ 0 <= box.y_min /\ box.y_min <= box.y_max
                   /\ box.y_max < camera_setup.height
                   /\ (box.y_max - box.y_min) * 10 >= MinHeight
    /\ \A i \in 1..Len(det_stop_signs) : det_stop_signs[i] \in StopIndices
    /\ \A i, j \in 1..Len(det_stop_signs) :
           i < j => det_stop_signs[i] < det_stop_signs[j]

\* Two stop signs are returned; the box of one is exactly 15 pixels high
\* after the digits are dropped, and reaches the last column of the image.
C23_Witness ==
    /\ s_pc = "returned"
    /\ det_stop_signs = <<1, 2>>
    /\ \E k \in StopIndices :
           LET box == traffic_stops[k].bounding_box
           IN  /\ box.y_max - box.y_min = 15
               /\ FootprintHeight(k) > MinHeight
               /\ box.x_max = camera_setup.width - 1

(***************************************************************************)
(* Properties of ChauffeurLoggerOperator (under SpecCanBus and SpecLogger). *)
(***************************************************************************)
\* The can bus messages received so far.
Updates == Len(transforms_seen)

\* C24: after every on_can_bus_update the history of transforms holds exactly
\* 10 entries, _current_transform is the transform of the latest message, and
\* after the k-th update _previous_transform is the transform of update
\* max(1, k - 10).
C24_HistoryHoldsTenAndPreviousIsTenBack ==
    Updates >= 1 =>
        /\ Len(_global_transforms) = 10
        /\ _current_transform = transforms_seen[Updates]
        /\ _previous_transform = transforms_seen[Max(1, Updates - 10)]
        /\ \A i \in 1..10 :
               _global_transforms[i] = transforms_seen[Max(1, Updates - 10 + i)]

\* Twelve updates, the first two with different transforms: the transform
\* popped is the second one.
C24_Witness ==
    /\ Updates = 12
    /\ transforms_seen[1] # transforms_seen[2]
    /\ _previous_transform = transforms_seen[2]

\* A step of on_tracking_update, on any message.
TrackingStep == \E msg \in TrackingMsgs : on_tracking_update(msg)

\* on_can_bus_update has run, and a trajectory with a point in it has been
\* taken for the ego vehicle's, up to and including the step's own message.
MayComplete == Updates >= 1 /\ ego_recorded'

\* C25: on_tracking_update completes only when on_can_bus_update has run
\* before it and a non-empty trajectory of the ego vehicle has been recorded,
\* which takes the vehicle id to have been received before a tracking message
\* that contains it; in every other interleaving it raises, and whenever it
\* raises it has written no file.
C25_TrackingCompletesOnlyAfterCanBusAndEgo ==
    /\ [](ego_recorded => _ground_vehicle_id # 0)
    /\ [][TrackingStep =>
             /\ t_raised' = None => MayComplete
             /\ ~MayComplete => t_raised' \in {"TypeError", "AttributeError",
                                               "IndexError"}
             /\ t_raised' # None => files' = files]_vars

\* A call that completed: the waypoints are centered and the three files are
\* written.
C25_Witness ==
    /\ t_raised = None
    /\ ego_recorded
    /\ _waypoints = Waypoints(<<0, 2>>)
    /\ {f.name : f \in files} = {"heading", "speed", "future_poses",
                                 "waypoints", "past_poses"}

\* Calls that raised for each of the three reasons.
RaisedForNone == t_raised = "TypeError" /\ _waypoints = NoWaypoints
RaisedForTransform == t_raised = "AttributeError" /\ _current_transform = 0
RaisedForEmpty == t_raised = "IndexError" /\ Updates >= 1 /\ ego_recorded

(***************************************************************************)
(* Properties of get_vehicle_handle (under SpecHandle).                    *)
(***************************************************************************)
\* A step that looks the vehicle up.
LookupStep == lookups' # lookups

\* C26: get_vehicle_handle always terminates.  It makes at most 50 lookups;
\* the first lookup that finds the vehicle returns it, with no lookup after
\* it; it raises ValueError after exactly 50 lookups that found nothing; and
\* the handle it returns is never falsy.
C26_VehicleHandleTerminates ==
    /\ <>(h_pc \in {"returned", "raised"})
    /\ [](lookups <= 50)
    /\ [](h_pc = "returned" =>
              truthy(vehicle) /\ vehicle = vehicle_id
              /\ lookups = num_tries + 1)
    /\ [](h_pc = "raised" => lookups = 50 /\ num_tries = 50 /\ ~truthy(vehicle))
    /\ [](h_pc = "loop" => lookups = num_tries /\ ~truthy(vehicle))
    /\ [][LookupStep =>
             /\ lookups' = lookups + 1
             /\ h_pc' = IF truthy(vehicle') THEN "returned" ELSE "loop"]_vars
    /\ [][(h_pc \in {"returned", "raised"}) => hvars' = hvars]_vars

\* The fiftieth lookup finds the vehicle.
C26_Witness ==
    /\ h_pc = "returned"
    /\ lookups = 50
    /\ vehicle = vehicle_id

\* Fifty lookups found nothing.
C26_Raised == h_pc = "raised" /\ lookups = 50

====
